---- MODULE Spec2Model ----
(***************************************************************************)
(* Participant workflow / approval engine of the accreditation app, with   *)
(* the request handlers that create, resubmit and delete participants.     *)
(*                                                                         *)
(* The database tables Step, Participant, Approval and Draft are the       *)
(* state.  A request handler is a sequence of awaited database calls; each *)
(* awaited call that reads or writes mutable rows is one step of the       *)
(* request occupying a slot.  Reads of the Step table, which is fixed      *)
(* during a run, are folded into the step that uses them.                  *)
(***************************************************************************)
EXTENDS Integers, Sequences, FiniteSets, TLC

VARIABLES steps, participants, approvals, drafts, nextPid, requests,
          invitation, registry, forms

vars == <<steps, participants, approvals, drafts, nextPid, requests,
          invitation, registry, forms>>

(* The state of the workflow engine and its callers, and the state of the  *)
(* quota evaluation and admission of registrations.                        *)
workflowVars == <<steps, participants, approvals, drafts, nextPid, requests>>

quotaVars == <<invitation, registry, forms>>

----------------------------------------------------------------------------
(* Bounds of the model                                                     *)

MaxParticipants == 1
MaxApprovals == 5
MaxStaffCalls == 1
MaxDrafts == 1
NumSlots == 2

ParticipantIds == 1..MaxParticipants
Slots == 1..NumSlots

(* The empty id of a form ('' or undefined) and the id of a draft that was *)
(* created with a generated cuid: it is a non-empty string that is the id  *)
(* of no participant.                                                      *)
EmptyId == 0
FreshDraftId == -1

(* The ids @default(cuid()) can give to drafts.                            *)
MaxCuids == 4

Cuids == {FreshDraftId - k : k \in 0..(MaxCuids - 1)}

NULL == "null"

Registrants == {"u1", "u2"}
Staff == {"staff"}

----------------------------------------------------------------------------
(* Enumerations of the schema                                              *)

Action ==
  {"APPROVE", "REJECT", "NOTIFY", "PRINT", "ARCHIVE", "CANCEL", "BYPASS"}

RequestStatus ==
  {"PENDING", "INPROGRESS", "APPROVED", "REJECTED", "CANCELLED", "PRINTED",
   "NOTIFIED", "ARCHIVED", "BYPASSED"}

ApprovalResult == {"SUCCESS", "FAILURE", "SKIPPED"}

(* Participant types: id -> name                                           *)
ParticipantTypeName ==
  [t \in {"ptDelegate", "ptPress"} |->
     IF t = "ptPress" THEN "Press / Media" ELSE "Delegate"]

ParticipantTypeIds == DOMAIN ParticipantTypeName

----------------------------------------------------------------------------
(* Step tables.  A workflow is a singly linked list of steps through       *)
(* nextStepId.                                                             *)

StepRow(id, wf, ord, nm, act, nxt) ==
  [id |-> id, workflowId |-> wf, order |-> ord, name |-> nm, action |-> act,
   nextStepId |-> nxt]

(* Two workflows, each with a 'MOFA Approval' step to approve; the press   *)
(* workflow ends with the 'ET Broadcast Approval' step.                    *)
FullTable ==
  { StepRow("d1", "wfDelegate", 1, "Request Received", "APPROVE", "d2"),
    StepRow("d2", "wfDelegate", 2, "Review Request", "APPROVE", "d3"),
    StepRow("d3", "wfDelegate", 3, "Security Clearance", "APPROVE", "d4"),
    StepRow("d4", "wfDelegate", 4, "MOFA Approval", "APPROVE", NULL),
    StepRow("p1", "wfPress", 1, "Request Received", "APPROVE", "p2"),
    StepRow("p2", "wfPress", 2, "Review Request", "APPROVE", "p3"),
    StepRow("p3", "wfPress", 3, "MOFA Approval", "APPROVE", "p4"),
    StepRow("p4", "wfPress", 4, "ET Broadcast Approval", "APPROVE", NULL) }

(* One workflow without an 'ET Broadcast Approval' step, whose only        *)
(* 'MOFA Approval' step is not a step to approve.                          *)
SparseTable ==
  { StepRow("d1", "wfDelegate", 1, "Request Received", "APPROVE", "d2"),
    StepRow("d2", "wfDelegate", 2, "Review Request", "APPROVE", "d3"),
    StepRow("d3", "wfDelegate", 3, "MOFA Approval", "NOTIFY", NULL) }

(* nextStepId is a plain column without a relation: the row it names can   *)
(* be gone.  Here the last step names a step that is not in the table.     *)
DanglingTable ==
  { StepRow("d1", "wfDelegate", 1, "Request Received", "APPROVE", "d2"),
    StepRow("d2", "wfDelegate", 2, "Review Request", "APPROVE", "d3"),
    StepRow("d3", "wfDelegate", 3, "Security Clearance", "APPROVE", "d4") }

(* Workflow.participantTypeId: the participant type a workflow is for      *)
WorkflowParticipantType ==
  [w \in {"wfDelegate", "wfPress"} |->
     IF w = "wfPress" THEN "ptPress" ELSE "ptDelegate"]

StepTables == {FullTable, SparseTable, DanglingTable}

StepIds == {s.id : s \in FullTable \cup SparseTable \cup DanglingTable}

----------------------------------------------------------------------------
(* Rows                                                                    *)

NoParticipant ==
  [present |-> FALSE, userId |-> "", participantTypeId |-> "", status |-> "",
   stepId |-> ""]

NoDraft == [present |-> FALSE, id |-> EmptyId, participantTypeId |-> ""]

NoStep == StepRow("", "", 0, "", "", NULL)

NoSnapshot == [participant |-> NoParticipant, step |-> NoStep, typeName |-> ""]

NoRemarks == "undefined"

IdleRequest ==
  [op |-> "none", pc |-> "idle", user |-> "", formId |-> EmptyId,
   formType |-> "", existing |-> FALSE, pid |-> EmptyId, action |-> "",
   remarks |-> NoRemarks, snap |-> NoSnapshot, ret |-> "", result |-> "",
   rowsAtCall |-> 0]

(* prisma.step.findUnique({ where: { id } })                               *)
StepsWithId(id) == {st \in steps : st.id = id}

StepById(id) == CHOOSE st \in steps : st.id = id

Exists(pid) == pid \in ParticipantIds /\ participants[pid].present

(* A handler runs to its end without another request in between: a new     *)
(* request is taken when no request is in progress.                        *)
Quiescent == \A s \in Slots : requests[s].pc \in {"idle", "done"}

Fail(s, error) ==
  requests' = [requests EXCEPT ![s].pc = "done", ![s].result = error]

----------------------------------------------------------------------------
(* Initial state: the seeded step table, no participant, approval or draft *)

(* Roles.  A step is owned by a role (Step.roleId); a user holds roles.    *)
(* The steps a registrant's submission passes are owned by a role the      *)
(* registrant holds, the later ones by the role of the staff.              *)
stepRole(st) ==
  IF st.name \in {"Request Received", "Review Request"} THEN "user"
  ELSE "reviewer"

UserRoles ==
  [u \in Registrants \cup Staff |->
     IF u \in Staff THEN {"reviewer"}
     ELSE IF u = "u1" THEN {"user", "focal"} ELSE {"user"}]

----------------------------------------------------------------------------
(* Quota and admission: invitation, constraints, registered participants   *)

NumBrowsers == 2
MaxCodes == 2
MaxRegistry == 2

(* The forms open in browsers, each with the request it submits.           *)
Browsers == 1..NumBrowsers

(* The random suffixes generateSuffix can return.                           *)
Suffixes == 1..MaxCodes

(* generatedCode = null                                                    *)
NoCode == <<>>

(* Invitation.maximumQuota Int?: null                                      *)
NoQuota == -1

MAX_ATTEMPTS == 5

InvitationId == "inv1"

NoInvitationId == ""

Organizations == {"Acme", "Other"}

(* The ParticipantType table with its 'All' row.                           *)
AllTypeId == "ptAll"

participantTypes == ParticipantTypeIds \cup {AllTypeId}

participantTypeName(t) ==
  IF t = AllTypeId THEN "All" ELSE ParticipantTypeName[t]

(* createRegistrationCode: the event prefix and the year are those of the  *)
(* one event; the first two letters of the type's name and the random      *)
(* suffix tell codes apart.                                                *)
typePrefix(t) ==
  IF participantTypeName(t) = "Delegate" THEN "DE"
  ELSE IF participantTypeName(t) = "Press / Media" THEN "PR"
  ELSE "AL"

createRegistrationCode(participantTypeId, randomSuffix) ==
  <<typePrefix(participantTypeId), randomSuffix>>

ConstraintRow(nm, t, q) == [name |-> nm, participantTypeId |-> t, quota |-> q]

(* An invitation of the focal user with its restriction: restricted says   *)
(* whether restrictionId names a restriction, constraints are its rows in  *)
(* the order the loader returns them.                                      *)
InvitationRow(t, maxQuota, restricted, cs) ==
  [id |-> InvitationId, organization |-> "Acme", participantTypeId |-> t,
   maximumQuota |-> maxQuota, restricted |-> restricted, constraints |-> cs]

NoInvitation ==
  [id |-> NoInvitationId, organization |-> "", participantTypeId |-> "",
   maximumQuota |-> NoQuota, restricted |-> FALSE, constraints |-> <<>>]

Restrictions ==
  { <<FALSE, <<>> >>,
    <<TRUE, << ConstraintRow("Delegates", "ptDelegate", 1) >> >>,
    <<TRUE, << ConstraintRow("Closed Session", "ptPress", 1) >> >> }

Invitations ==
  { InvitationRow(t, q, r[1], r[2]) :
      t \in {AllTypeId, "ptDelegate"}, q \in {NoQuota, 0, 1}, r \in Restrictions }

(* A registered participant, as far as quota and admission read it.        *)
RegistryRow(u, t, org, inv, own, closed, code, stepId, passportNumber) ==
  [userId |-> u, participantTypeId |-> t, organization |-> org,
   invitationId |-> inv, self |-> own, closedSession |-> closed,
   registrationCode |-> code, stepId |-> stepId, status |-> "PENDING",
   passportNumber |-> passportNumber]

IdleForm ==
  [pc |-> "idle", editor |-> "", user |-> "", requestFor |-> "",
   invitationId |-> NoInvitationId, selectable |-> {}, labels |-> {},
   panel |-> {}, availableClosedSessionQuota |-> 0,
   closedSessionOffered |-> FALSE, asOf |-> 0,
   participantTypeId |-> "", organization |-> "", closedSession |-> FALSE,
   attempts |-> 0, generatedCode |-> NoCode, row |-> 0, result |-> "",
   rowsAtSubmit |-> 0, approvalsAtSubmit |-> 0, passportNumber |-> 0]

Init ==
  /\ steps \in StepTables
  /\ participants = [p \in ParticipantIds |-> NoParticipant]
  /\ approvals = <<>>
  /\ drafts = <<>>
  /\ nextPid = 1
  /\ requests = [s \in Slots |-> IdleRequest]
  /\ invitation = NoInvitation
  /\ registry = <<>>
  /\ forms = [b \in Browsers |-> IdleForm]

----------------------------------------------------------------------------
(* workflow.server.ts                                                      *)

SupportedActions == {"REJECT", "APPROVE", "PRINT", "NOTIFY", "ARCHIVE"}

getRemarksByAction(action) ==
  CASE action = "APPROVE" -> "Approved successfully."
    [] action = "REJECT" -> "Rejected due to compliance issues."
    [] action = "PRINT" -> "Printed successfully."
    [] action = "NOTIFY" -> "Notification sent successfully."
    [] action = "ARCHIVE" -> "Archived successfully."
    [] OTHER -> "Action processed."

(* A variant that logs every action as a success.                          *)
approvalResultSuccess(action) == "SUCCESS"

(* result: action === Action.REJECT ? 'FAILURE' : 'SUCCESS'                *)
approvalResult(action) == IF action = "REJECT" THEN "FAILURE" ELSE "SUCCESS"

(* The row logApproval creates for a loaded participant.                   *)
approvalRow(pid, snap, userId, action, remarks) ==
  [participantId |-> pid,
   stepId |-> snap.step.id,
   userId |-> userId,
   result |-> approvalResult(action),
   remarks |-> IF remarks = NoRemarks THEN getRemarksByAction(action)
               ELSE remarks]

(* A call of processParticipant made by a request with record r: the       *)
(* arguments are stored and the call starts at its first awaited query.    *)
(* ret says where the caller continues when the call returns.              *)
callProcessParticipant(r, participantId, userId, action, remarks, ret) ==
  [r EXCEPT !.pc = "load", !.pid = participantId, !.user = userId,
            !.action = action, !.remarks = remarks, !.ret = ret,
            !.snap = NoSnapshot, !.result = "",
            !.rowsAtCall = Len(approvals)]

(* Where request s continues once processParticipant has returned.         *)
returnTo(s) ==
  CASE requests[s].ret = "second" -> "second"
    [] requests[s].ret = "cleanup" -> "cleanup"
    [] OTHER -> "done"

(* prisma.participant.findUniqueOrThrow with step and participantType, by *)
(* a request with record r: the record after the query.                    *)
loaded(r) ==
  IF ~Exists(r.pid)
  THEN [r EXCEPT !.pc = "done", !.result = "NotFound"]
  ELSE [r EXCEPT
          !.pc = "log",
          !.snap =
            [participant |-> participants[r.pid],
             step |-> StepById(participants[r.pid].stepId),
             typeName |->
               ParticipantTypeName[participants[r.pid].participantTypeId]]]

loadParticipant(s) ==
  /\ requests[s].pc = "load"
  /\ requests' = [requests EXCEPT ![s] = loaded(requests[s])]
  /\ UNCHANGED <<steps, participants, approvals, drafts, nextPid>>
  /\ UNCHANGED quotaVars

(* A variant of logApproval that goes on to the handler without a row.     *)
logApprovalSkipped(s) ==
  /\ requests[s].pc = "log"
  /\ requests' = [requests EXCEPT ![s].pc = "handle"]
  /\ UNCHANGED <<steps, participants, approvals, drafts, nextPid>>
  /\ UNCHANGED quotaVars

(* prisma.approval.create: the participant row must still exist (foreign   *)
(* key of Approval.participantId).                                         *)
logApproval(s) ==
  /\ requests[s].pc = "log"
  /\ LET r == requests[s] IN
       IF ~Exists(r.pid)
       THEN /\ Fail(s, "ApprovalForeignKey")
            /\ UNCHANGED approvals
       ELSE /\ approvals' =
                 Append(approvals,
                        approvalRow(r.pid, r.snap, r.user, r.action, r.remarks))
            /\ requests' = [requests EXCEPT ![s].pc = "handle"]
  /\ UNCHANGED <<steps, participants, drafts, nextPid>>
  /\ UNCHANGED quotaVars

(* prisma.participant.update({ where: { id }, data }) inside a handler of  *)
(* request s: throws when the row is gone or the new stepId names no step. *)
updateParticipant(s, stepId, status) ==
  LET pid == requests[s].pid IN
    IF ~Exists(pid)
    THEN /\ Fail(s, "NotFound")
         /\ UNCHANGED participants
    ELSE IF StepsWithId(stepId) = {}
    THEN /\ Fail(s, "ForeignKey")
         /\ UNCHANGED participants
    ELSE /\ participants' =
              [participants EXCEPT ![pid].stepId = stepId, ![pid].status = status]
         /\ requests' = [requests EXCEPT ![s].pc = returnTo(s), ![s].result = "ok"]

(* A handler that returns without writing.                                 *)
noTransition(s) ==
  /\ requests' = [requests EXCEPT ![s].pc = returnTo(s), ![s].result = "ok"]
  /\ UNCHANGED participants

(* A variant of the lookup of handleRejection that takes a step of any     *)
(* action.                                                                 *)
mofaApprovalStepsAnyAction(snap) ==
  {st \in steps : /\ st.workflowId = snap.step.workflowId
                  /\ st.name = "MOFA Approval"}

(* findFirst({ workflowId: participant.step.workflowId,                    *)
(*             name: 'MOFA Approval', action: APPROVE })                   *)
mofaApprovalSteps(snap) ==
  {st \in steps : /\ st.workflowId = snap.step.workflowId
                  /\ st.name = "MOFA Approval"
                  /\ st.action = "APPROVE"}

handleRejection(s) ==
  LET found == mofaApprovalSteps(requests[s].snap) IN
    IF found = {}
    THEN noTransition(s)
    ELSE \E mofaApprovalStep \in found :
           updateParticipant(s, mofaApprovalStep.id, "REJECTED")

(* A variant of determineNextStep without its special case.                *)
isPressReviewNever(snap) == FALSE

(* The special case of determineNextStep.                                  *)
isPressReview(snap) ==
  snap.typeName = "Press / Media" /\ snap.step.name = "Review Request"

(* findFirst({ name: 'ET Broadcast Approval' }): any workflow              *)
etBroadcastSteps == {st \in steps : st.name = "ET Broadcast Approval"}

(* The ids determineNextStep can return (NULL: no next step).              *)
determineNextStep(snap) ==
  IF isPressReview(snap)
  THEN IF etBroadcastSteps = {} THEN {NULL}
       ELSE {st.id : st \in etBroadcastSteps}
  ELSE {snap.step.nextStepId}

(* A variant of handleApproval that keeps the status.                      *)
handleApprovalKeepStatus(s) ==
  \E nextStepId \in determineNextStep(requests[s].snap) :
    IF nextStepId = NULL
    THEN noTransition(s)
    ELSE updateParticipant(s, nextStepId, requests[s].snap.participant.status)

handleApproval(s) ==
  \E nextStepId \in determineNextStep(requests[s].snap) :
    IF nextStepId = NULL
    THEN noTransition(s)
    ELSE updateParticipant(s, nextStepId, "INPROGRESS")

(* handlePrint and handleNotify: findUniqueOrThrow of the next step, then  *)
(* the update with the status of the action.                               *)
advanceWithStatus(s, status) ==
  LET nextStepId == requests[s].snap.step.nextStepId IN
    IF nextStepId = NULL
    THEN noTransition(s)
    ELSE IF StepsWithId(nextStepId) = {}
    THEN /\ Fail(s, "NotFound")
         /\ UNCHANGED participants
    ELSE updateParticipant(s, StepById(nextStepId).id, status)

handlePrint(s) == advanceWithStatus(s, "PRINTED")

(* A variant of handleNotify with the status of handlePrint.               *)
handleNotifyPrinted(s) == advanceWithStatus(s, "PRINTED")

handleNotify(s) == advanceWithStatus(s, "NOTIFIED")

(* A variant of handleArchive that advances like handlePrint.              *)
handleArchiveAdvancing(s) == advanceWithStatus(s, "ARCHIVED")

(* The update of handleArchive writes status only.                         *)
handleArchive(s) ==
  LET pid == requests[s].pid IN
    IF ~Exists(pid)
    THEN /\ Fail(s, "NotFound")
         /\ UNCHANGED participants
    ELSE /\ participants' = [participants EXCEPT ![pid].status = "ARCHIVED"]
         /\ requests' = [requests EXCEPT ![s].pc = returnTo(s), ![s].result = "ok"]

(* A variant of the default branch that returns without an error.          *)
unsupportedActionIgnored(s) == noTransition(s)

(* default: throw new Error(`Unsupported action: ${action}`)               *)
unsupportedAction(s) ==
  /\ Fail(s, "UnsupportedAction")
  /\ UNCHANGED participants

(* The switch of processParticipant.                                       *)
dispatch(s) ==
  /\ requests[s].pc = "handle"
  /\ CASE requests[s].action = "REJECT" -> handleRejection(s)
       [] requests[s].action = "APPROVE" -> handleApproval(s)
       [] requests[s].action = "PRINT" -> handlePrint(s)
       [] requests[s].action = "NOTIFY" -> handleNotify(s)
       [] requests[s].action = "ARCHIVE" -> handleArchive(s)
       [] OTHER -> unsupportedAction(s)
  /\ UNCHANGED <<steps, approvals, drafts, nextPid>>
  /\ UNCHANGED quotaVars

(* The requests of the model run one at a time: a request is taken when   *)
(* the previous one has ended, and its record replaces the previous one.   *)
Finished == [IdleRequest EXCEPT !.pc = "done", !.result = "ok"]

Rejected(error) == [IdleRequest EXCEPT !.pc = "done", !.result = error]

(* A caller outside the registration routes (an approver's route) calls    *)
(* processParticipant(participantId, userId, action, remarks?); the step   *)
(* is the call with its first query.                                       *)
CustomRemarks == "Request Rejected: incomplete documents"

RemarksFor(action) ==
  IF action = "REJECT" THEN {NoRemarks, CustomRemarks} ELSE {NoRemarks}

(* The number of approvals logged for such callers bounds their calls.     *)
StaffRows == Len(SelectSeq(approvals, LAMBDA a : a.userId \in Staff))

processParticipant(participantId, userId, action, remarks) ==
  /\ Quiescent
  /\ Len(approvals) < MaxApprovals
  /\ StaffRows < MaxStaffCalls
  /\ requests' =
       [requests EXCEPT
          ![1] = loaded(callProcessParticipant(
                          [IdleRequest EXCEPT !.op = "process"],
                          participantId, userId, action, remarks, "return"))]
  /\ UNCHANGED <<steps, participants, approvals, drafts, nextPid>>
  /\ UNCHANGED quotaVars

----------------------------------------------------------------------------
(* Registration wizard: the draft of a user                                *)

(* The Draft table is a sequence of rows (userId, id, participantTypeId).   *)
DraftRow(u, id, participantTypeId) ==
  [userId |-> u, id |-> id, participantTypeId |-> participantTypeId]

draftsOf(rows, u) == SelectSeq(rows, LAMBDA d : d.userId = u)

(* prisma.draft.findUnique({ where: { userId } }): the row, or null        *)
userDraft(u) ==
  IF Len(draftsOf(drafts, u)) = 0 THEN NoDraft
  ELSE [present |-> TRUE, id |-> Head(draftsOf(drafts, u)).id,
        participantTypeId |-> Head(draftsOf(drafts, u)).participantTypeId]

(* prisma.draft.deleteMany({ where: { userId } })                          *)
deleteManyDrafts(rows, u) == SelectSeq(rows, LAMBDA d : d.userId # u)

(* A variant of the constraints of Draft without userId @unique.           *)
draftConflictById(rows, u, id) ==
  \E i \in DOMAIN rows : id \notin Cuids /\ rows[i].id = id

(* The constraints prisma.draft.create can violate: userId @unique, and    *)
(* id @id when the id is given (a generated cuid is the id of no row).     *)
draftConflict(rows, u, id) ==
  \E i \in DOMAIN rows :
    \/ rows[i].userId = u
    \/ id \notin Cuids /\ rows[i].id = id

(* prisma.draft.create({ data })                                           *)
createDraft(rows, u, id, participantTypeId) ==
  Append(rows, DraftRow(u, id, participantTypeId))

(* prisma.draft.update({ where: { id: draft.id }, data }) for the row      *)
(* found by userId                                                         *)
updateDraft(rows, u, participantTypeId) ==
  [i \in DOMAIN rows |->
     IF rows[i].userId = u
     THEN [rows[i] EXCEPT !.participantTypeId = participantTypeId]
     ELSE rows[i]]

OpenDrafts == {u \in Registrants : userDraft(u).present}

RoomForDraft(u) == userDraft(u).present \/ Cardinality(OpenDrafts) < MaxDrafts

(* deleteMany({ userId }) then create, in a request that runs alone: the   *)
(* user's draft is replaced, unless the id given is the id of a draft of   *)
(* another user, in which case the create throws after the deleteMany.     *)
replaceDraft(u, id, participantTypeId) ==
  IF draftConflict(deleteManyDrafts(drafts, u), u, id)
  THEN deleteManyDrafts(drafts, u)
  ELSE createDraft(deleteManyDrafts(drafts, u), u, id, participantTypeId)

replaced(u, id) ==
  IF draftConflict(deleteManyDrafts(drafts, u), u, id)
  THEN Rejected("UniqueConstraint") ELSE Finished

(* routes/requests+/new.tsx action: replace the user's draft by a new one  *)
newRequest(u) ==
  /\ Quiescent
  /\ RoomForDraft(u)
  /\ drafts' = replaceDraft(u, FreshDraftId, "")
  /\ requests' = [requests EXCEPT ![1] = replaced(u, FreshDraftId)]
  /\ UNCHANGED <<steps, participants, approvals, nextPid>>
  /\ UNCHANGED quotaVars

(* routes/requests+/$participantId_.edit.tsx loader: the owner of a        *)
(* REJECTED participant gets a draft with the participant's id; anyone     *)
(* else gets 404 or 403.                                                   *)
editAllowed(u, participantId) ==
  /\ Exists(participantId)
  /\ participants[participantId].userId = u
  /\ participants[participantId].status = "REJECTED"

editRequest(u, participantId) ==
  /\ Quiescent
  /\ RoomForDraft(u)
  /\ IF editAllowed(u, participantId)
     THEN /\ drafts' =
               replaceDraft(u, participantId,
                            participants[participantId].participantTypeId)
          /\ requests' = [requests EXCEPT ![1] = replaced(u, participantId)]
     ELSE /\ requests' = [requests EXCEPT ![1] = Rejected("Unauthorized")]
          /\ UNCHANGED drafts
  /\ UNCHANGED <<steps, participants, approvals, nextPid>>
  /\ UNCHANGED quotaVars

(* General step of the wizard: stores the chosen participant type in the   *)
(* user's draft (404 without a draft).                                     *)
generalStep(u, participantTypeId) ==
  /\ Quiescent
  /\ IF userDraft(u).present
     THEN /\ drafts' = updateDraft(drafts, u, participantTypeId)
          /\ requests' = [requests EXCEPT ![1] = Finished]
     ELSE /\ requests' = [requests EXCEPT ![1] = Rejected("NoDraft")]
          /\ UNCHANGED drafts
  /\ UNCHANGED <<steps, participants, approvals, nextPid>>
  /\ UNCHANGED quotaVars

(* Cancel route and events list: delete the user's draft, if any           *)
cancelRequest(u) ==
  /\ Quiescent
  /\ drafts' = deleteManyDrafts(drafts, u)
  /\ requests' = [requests EXCEPT ![1] = Finished]
  /\ UNCHANGED <<steps, participants, approvals, nextPid>>
  /\ UNCHANGED quotaVars

----------------------------------------------------------------------------
(* Submission: the action of the single-page registration route            *)
(* (general.tsx) and the action of the wizard's documents route            *)
(* (__registration-editor.tsx)                                             *)

(* findFirstOrThrow({ where: { name: 'Request Received' } }): any workflow *)
requestReceivedSteps == {st \in steps : st.name = "Request Received"}

(* `${id ? 'Updated' : 'Initial'} Request Received` and `... Reviewed`     *)
submissionRemarks(id, second) ==
  CASE id # EmptyId /\ ~second -> "Updated Request Received"
    [] id # EmptyId /\ second -> "Updated Request Reviewed"
    [] id = EmptyId /\ ~second -> "Initial Request Received"
    [] OTHER -> "Initial Request Reviewed"

(* The ids a form can carry: none, or the id of a participant that was     *)
(* created at some time.                                                   *)
FormIds == {EmptyId} \cup {p \in ParticipantIds : p < nextPid}

(* The request may create a participant only while ids remain, and logs    *)
(* two approvals.                                                          *)
RoomForSubmission(id) ==
  /\ Len(approvals) + 2 <= MaxApprovals
  /\ Exists(id) \/ nextPid <= MaxParticipants

(* Registration route: the form carries the participant's id ('' for a new *)
(* registration) and the participant type.  The step is the request with   *)
(* its query for the participant the id names.                             *)
registrationAction(u, id, participantTypeId) ==
  /\ Quiescent
  /\ id \in FormIds
  /\ RoomForSubmission(id)
  /\ requests' =
       [requests EXCEPT
          ![1] = [IdleRequest EXCEPT
                    !.op = "registration", !.pc = "upsert", !.user = u,
                    !.formId = id, !.formType = participantTypeId,
                    !.existing = (id # EmptyId /\ Exists(id))]]
  /\ UNCHANGED <<steps, participants, approvals, drafts, nextPid>>
  /\ UNCHANGED quotaVars

(* Documents route: everything comes from the user's draft (404 without    *)
(* one); the participant id is the draft's id.                             *)
documentsRequest(u) ==
  IF ~userDraft(u).present
  THEN Rejected("NoDraft")
  ELSE [IdleRequest EXCEPT
          !.op = "documents", !.pc = "upsert", !.user = u,
          !.formId = userDraft(u).id,
          !.formType = userDraft(u).participantTypeId,
          !.existing = Exists(userDraft(u).id)]

documentsAction(u) ==
  /\ Quiescent
  /\ RoomForSubmission(userDraft(u).id)
  /\ requests' = [requests EXCEPT ![1] = documentsRequest(u)]
  /\ UNCHANGED <<steps, participants, approvals, drafts, nextPid>>
  /\ UNCHANGED quotaVars

(* A variant of data that also resets the status.                          *)
submittedDataPending(row, u, participantTypeId, requestReceived) ==
  [row EXCEPT !.present = TRUE, !.userId = u,
              !.participantTypeId = participantTypeId,
              !.stepId = requestReceived.id,
              !.status = "PENDING"]

(* The fields both branches of the upsert write (data): the step is always *)
(* 'Request Received'.                                                     *)
submittedData(row, u, participantTypeId, requestReceived) ==
  [row EXCEPT !.present = TRUE, !.userId = u,
              !.participantTypeId = participantTypeId,
              !.stepId = requestReceived.id]

(* The row the create branch starts from: status PENDING.                  *)
createdRow == [NoParticipant EXCEPT !.status = "PENDING"]

(* prisma.participant.upsert, then the first processParticipant call       *)
upsertParticipant(s) ==
  /\ requests[s].pc = "upsert"
  /\ Exists(requests[s].formId) \/ nextPid <= MaxParticipants
  /\ LET r == requests[s] IN
       IF requestReceivedSteps = {}
       THEN /\ Fail(s, "NotFound")
            /\ UNCHANGED <<participants, nextPid>>
       ELSE IF r.formType \notin ParticipantTypeIds
       THEN /\ Fail(s, "ForeignKey")
            /\ UNCHANGED <<participants, nextPid>>
       ELSE \E requestReceived \in requestReceivedSteps :
              LET update == Exists(r.formId)
                  id == IF update THEN r.formId ELSE nextPid
                  row == IF update THEN participants[id] ELSE createdRow
              IN /\ participants' =
                      [participants EXCEPT
                         ![id] = submittedData(row, r.user, r.formType,
                                               requestReceived)]
                 /\ nextPid' = IF update THEN nextPid ELSE nextPid + 1
                 /\ requests' =
                      [requests EXCEPT
                         ![s] = callProcessParticipant(
                                  r, id, r.user, "APPROVE",
                                  submissionRemarks(r.formId, FALSE), "second")]
  /\ UNCHANGED <<steps, approvals, drafts>>
  /\ UNCHANGED quotaVars

(* The second processParticipant call of a submission                      *)
secondCall(s) ==
  /\ requests[s].pc = "second"
  /\ LET r == requests[s] IN
       requests' =
         [requests EXCEPT
            ![s] = callProcessParticipant(
                     r, r.pid, r.user, "APPROVE",
                     submissionRemarks(r.formId, TRUE),
                     IF r.op = "documents" THEN "cleanup" ELSE "return")]
  /\ UNCHANGED <<steps, participants, approvals, drafts, nextPid>>
  /\ UNCHANGED quotaVars

(* Documents route, last write: prisma.draft.deleteMany({ userId })        *)
deleteDraft(s) ==
  /\ requests[s].pc = "cleanup"
  /\ drafts' = deleteManyDrafts(drafts, requests[s].user)
  /\ requests' = [requests EXCEPT ![s].pc = "done", ![s].result = "ok"]
  /\ UNCHANGED <<steps, participants, approvals, nextPid>>
  /\ UNCHANGED quotaVars

----------------------------------------------------------------------------
(* routes/requests+/$participantId.tsx: intent 'delete'                    *)

(* onDelete: Cascade of Approval.participant                               *)
cascadeApprovals(rows, participantId) ==
  SelectSeq(rows, LAMBDA a : a.participantId # participantId)

(* prisma.participant.delete({ where: { id } }): throws without the row    *)
deleteParticipantAction(u, participantId) ==
  /\ Quiescent
  /\ IF Exists(participantId)
     THEN /\ participants' =
               [participants EXCEPT ![participantId] = NoParticipant]
          /\ approvals' = cascadeApprovals(approvals, participantId)
          /\ requests' =
               [requests EXCEPT
                  ![1] = [Finished EXCEPT !.op = "delete", !.user = u,
                                          !.pid = participantId]]
     ELSE /\ requests' = [requests EXCEPT ![1] = Rejected("NotFound")]
          /\ UNCHANGED <<participants, approvals>>
  /\ UNCHANGED <<steps, drafts, nextPid>>
  /\ UNCHANGED quotaVars

----------------------------------------------------------------------------

Next ==
  \/ \E p \in ParticipantIds, u \in Staff, a \in Action :
       \E r \in RemarksFor(a) : processParticipant(p, u, a, r)
  \/ \E s \in Slots : loadParticipant(s)
  \/ \E s \in Slots : logApproval(s)
  \/ \E s \in Slots : dispatch(s)
  \/ \E u \in Registrants : newRequest(u)
  \/ \E u \in Registrants, p \in ParticipantIds : editRequest(u, p)
  \/ \E u \in Registrants, t \in ParticipantTypeIds : generalStep(u, t)
  \/ \E u \in Registrants : cancelRequest(u)
  \/ \E u \in Registrants, p \in {EmptyId} \cup ParticipantIds,
        t \in ParticipantTypeIds : registrationAction(u, p, t)
  \/ \E u \in Registrants : documentsAction(u)
  \/ \E s \in Slots : upsertParticipant(s)
  \/ \E s \in Slots : secondCall(s)
  \/ \E s \in Slots : deleteDraft(s)
  \/ \E u \in Registrants, p \in ParticipantIds : deleteParticipantAction(u, p)

Spec == Init /\ [][Next]_vars

----------------------------------------------------------------------------
(* Quota evaluation: what the loaders select and the forms compute         *)

userHasRole(u, role) == role \in UserRoles[u]

(* invitations of the loader: those whose email is the user's; the         *)
(* invitation of the model is the focal user's.                            *)
userInvitations(u) ==
  IF userHasRole(u, "focal") /\ invitation.id # NoInvitationId
  THEN {invitation} ELSE {}

(* invitation.participants: Participant rows with invitationId = i.id      *)
invitationParticipants(inv) ==
  {i \in DOMAIN registry : registry[i].invitationId = inv.id}

(* constraint.participantType.participants: rows of that type              *)
typeParticipants(t) ==
  {i \in DOMAIN registry : registry[i].participantTypeId = t}

(* A count that does not look at the organization.                         *)
organizationCountAny(rows, inv) == Cardinality(rows)

(* .filter(p => p.organization === invitation.organization).length         *)
organizationCount(rows, inv) ==
  Cardinality({i \in rows : registry[i].organization = inv.organization})

(* closed_session_data: participants of the user's invitations whose       *)
(* wishList contains the 'Closed Session' meeting type                     *)
closedSessionCount(u) ==
  Cardinality({i \in DOMAIN registry :
                 /\ \E inv \in userInvitations(u) :
                      registry[i].invitationId = inv.id
                 /\ registry[i].closedSession})

baseTypes == {pt \in participantTypes : participantTypeName(pt) # "All"}

(* if (selectedInvitation.maximumQuota) { ... totalParticipants >= ... }    *)
maximumQuotaReached(inv) ==
  /\ inv.maximumQuota # NoQuota
  /\ inv.maximumQuota # 0
  /\ organizationCount(invitationParticipants(inv), inv) >= inv.maximumQuota

(* restriction.constraints.find(c => c.participantType.id === pt.id):      *)
(* the matching constraints in order, the first is the one found           *)
constraintsFor(inv, pt) ==
  SelectSeq(inv.constraints, LAMBDA c : c.participantTypeId = pt)

(* A filter that drops a type without a constraint.                        *)
withinConstraintOnly(inv, pt) ==
  LET found == constraintsFor(inv, pt) IN
    /\ Len(found) > 0
    /\ organizationCount(typeParticipants(Head(found).participantTypeId), inv)
         < Head(found).quota

(* participantsCount < constraint.quota                                    *)
withinConstraint(inv, pt) ==
  LET found == constraintsFor(inv, pt) IN
    IF Len(found) = 0 THEN TRUE
    ELSE organizationCount(typeParticipants(Head(found).participantTypeId), inv)
           < Head(found).quota

(* The invitation selected in the form: invitations.find(inv => inv.id === *)
(* fields.invitationId.value)                                              *)
selectedInvitations(u, invitationId) ==
  {inv \in userInvitations(u) : inv.id = invitationId}

(* availableParticipantTypes of GeneralInfoEditor (wizard)                 *)
generalAvailableParticipantTypes(u, requestFor, invitationId) ==
  IF ~userHasRole(u, "focal") THEN baseTypes
  ELSE IF requestFor = "MYSELF" THEN baseTypes
  ELSE IF invitationId = NoInvitationId THEN {}
  ELSE IF selectedInvitations(u, invitationId) = {} THEN {}
  ELSE LET selectedInvitation ==
             CHOOSE inv \in selectedInvitations(u, invitationId) : TRUE
           allowedTypes ==
             IF participantTypeName(selectedInvitation.participantTypeId) = "All"
             THEN baseTypes
             ELSE {pt \in baseTypes : pt = selectedInvitation.participantTypeId}
       IN IF maximumQuotaReached(selectedInvitation) THEN {}
          ELSE IF selectedInvitation.restricted
          THEN {pt \in allowedTypes : withinConstraint(selectedInvitation, pt)}
          ELSE allowedTypes

(* availableParticipantTypes of RegistrationEditor (single page): the      *)
(* loader always builds selectedInvitation.participantType                 *)
registrationAvailableParticipantTypes(u, requestFor, invitationId) ==
  IF ~userHasRole(u, "focal") THEN baseTypes
  ELSE IF requestFor = "MYSELF" THEN baseTypes
  ELSE IF invitationId = NoInvitationId THEN {}
  ELSE IF selectedInvitations(u, invitationId) = {} THEN {}
  ELSE LET selectedInvitation ==
             CHOOSE inv \in selectedInvitations(u, invitationId) : TRUE
       IN IF maximumQuotaReached(selectedInvitation) THEN {}
          ELSE {pt \in baseTypes : pt = selectedInvitation.participantTypeId}

availableParticipantTypes(editor, u, requestFor, invitationId) ==
  IF editor = "wizard"
  THEN generalAvailableParticipantTypes(u, requestFor, invitationId)
  ELSE registrationAvailableParticipantTypes(u, requestFor, invitationId)

(* The '(n available)' label of a type in GeneralInfoEditor:               *)
(* constraint.quota - registeredCount                                      *)
editorAvailable(inv, c) ==
  c.quota - organizationCount(typeParticipants(c.participantTypeId), inv)

(* The quota panel of the new-request page: a constraint named 'Closed     *)
(* Session' counts closedSessionCount instead.                             *)
panelAvailable(u, inv, c) ==
  c.quota - (IF c.name = "Closed Session" THEN closedSessionCount(u)
             ELSE organizationCount(typeParticipants(c.participantTypeId), inv))

----------------------------------------------------------------------------
(* Admission: a form is rendered, filled in and submitted; the submit      *)
(* action generates a registration code, creates the participant and       *)
(* calls processParticipant twice.                                         *)

(* What a registrant fills in before the form computes the selectable      *)
(* participant types: who is registered and under which invitation.        *)
FormInputs ==
  { <<"u1", "OTHERS", InvitationId>>, <<"u1", "OTHERS", NoInvitationId>>,
    <<"u1", "MYSELF", NoInvitationId>>, <<"u2", "MYSELF", NoInvitationId>> }

(* tenantId_eventId_email: the participant registered with the user's own  *)
(* email.                                                                  *)
ownParticipants(u) == {i \in DOMAIN registry : registry[i].self = u}

(* The constraints of an invitation as the loader of the form returns      *)
(* them: the wishlist loader of the wizard includes the whole rows, the     *)
(* raw query of the registration route builds each constraint from id,     *)
(* quota, participantTypeId and participantType, so that constraint.name   *)
(* is undefined there.                                                     *)
NoName == "undefined"

loadedConstraints(editor, inv) ==
  [k \in DOMAIN inv.constraints |->
     IF editor = "registration"
     THEN [inv.constraints[k] EXCEPT !.name = NoName]
     ELSE inv.constraints[k]]

(* availableClosedSessionQuota of the loaders: the quota of the constraint *)
(* found by constraint.name === 'Closed Session' in the user's invitations *)
(* (0 without one) minus closedSessionCount.                               *)
closedSessionConstraints(editor, u) ==
  {c \in UNION {{loadedConstraints(editor, inv)[k] :
                    k \in DOMAIN inv.constraints} :
                  inv \in {i \in userInvitations(u) : i.restricted}} :
     c.name = "Closed Session"}

availableClosedSessionQuota(editor, u) ==
  (IF closedSessionConstraints(editor, u) = {} THEN 0
   ELSE (CHOOSE c \in closedSessionConstraints(editor, u) : TRUE).quota)
    - closedSessionCount(u)

(* meetingTypes.filter: the 'Closed Session' meeting is an item of the     *)
(* checkbox group when (availableClosedSessionQuota ?? 0) > 0.             *)
closedSessionOffered(available) == available > 0

(* The items of the participant type select of GeneralInfoEditor: an       *)
(* offered type with a constraint is labelled '(n available)'.             *)
typeLabels(u, requestFor, invitationId) ==
  IF requestFor = "OTHERS" /\ invitationId # NoInvitationId
  THEN { [participantTypeId |-> pt,
          available |->
            editorAvailable(inv, Head(constraintsFor(inv, pt)))] :
           <<inv, pt>> \in
             { x \in selectedInvitations(u, invitationId)
                       \X generalAvailableParticipantTypes(u, requestFor,
                                                           invitationId) :
                 x[1].restricted /\ Len(constraintsFor(x[1], x[2])) > 0 } }
  ELSE {}

(* The quota panel the new-request page shows to a focal user before the   *)
(* wizard: one line per constraint of each invitation.                     *)
quotaPanel(u) ==
  IF userHasRole(u, "focal")
  THEN UNION { { [constraint |-> k,
                  available |-> panelAvailable(u, inv, inv.constraints[k])] :
                   k \in DOMAIN inv.constraints } :
                 inv \in { i \in userInvitations(u) : i.restricted } }
  ELSE {}

FormClosed(b) == forms[b].pc \in {"idle", "done", "failed"}

(* The outcome of a submission: what the registrant sees, and what the     *)
(* submission found and made.                                              *)
outcome(f, pc, result) ==
  [IdleForm EXCEPT !.pc = pc, !.result = result, !.editor = f.editor,
                   !.asOf = f.asOf, !.attempts = f.attempts, !.row = f.row,
                   !.rowsAtSubmit = f.rowsAtSubmit,
                   !.approvalsAtSubmit = f.approvalsAtSubmit]

(* The loader and the form: the registration route redirects a user who    *)
(* is registered with the own email; otherwise the form is rendered with   *)
(* the participant types it offers.                                        *)
renderForm(b, editor, u, requestFor, invitationId) ==
  /\ FormClosed(b)
  /\ editor = "registration" => ownParticipants(u) = {}
  /\ forms' =
       [forms EXCEPT
          ![b] = [IdleForm EXCEPT
                    !.pc = "form", !.editor = editor, !.user = u,
                    !.requestFor = requestFor, !.invitationId = invitationId,
                    !.selectable =
                      availableParticipantTypes(editor, u, requestFor,
                                                invitationId),
                    !.labels =
                      IF editor = "wizard"
                      THEN typeLabels(u, requestFor, invitationId) ELSE {},
                    !.panel = IF editor = "wizard" THEN quotaPanel(u) ELSE {},
                    !.availableClosedSessionQuota =
                      availableClosedSessionQuota(editor, u),
                    !.closedSessionOffered =
                      closedSessionOffered(
                        availableClosedSessionQuota(editor, u)),
                    !.asOf = Len(registry)]]
  /\ UNCHANGED <<invitation, registry>>
  /\ UNCHANGED workflowVars

(* organization: invitationOrganization ?? participantData.organization    *)
submittedOrganization(invitationId, organization) ==
  IF invitationId # NoInvitationId /\ invitation.id = invitationId
  THEN invitation.organization ELSE organization

(* The registrant picks one of the offered participant types, types an     *)
(* organization, and ticks the Closed Session meeting when it is offered;  *)
(* the submit action looks up the invitation's organization and starts     *)
(* with no code generated.                                                 *)
(* General step of the wizard: participant.findFirst({ tenantId, eventId,  *)
(* passportNumber }) of a form without a participant id.  The registration *)
(* route makes no such query.                                              *)
passportExists(editor, passportNumber) ==
  /\ editor = "wizard"
  /\ \E i \in DOMAIN registry : registry[i].passportNumber = passportNumber

submitForm(b, participantTypeId, organization, closedSession, passportNumber) ==
  /\ forms[b].pc = "form"
  /\ participantTypeId \in forms[b].selectable
  /\ closedSession => forms[b].closedSessionOffered
  /\ forms' =
       [forms EXCEPT
          ![b] =
            IF passportExists(forms[b].editor, passportNumber)
            THEN outcome([forms[b] EXCEPT !.passportNumber = passportNumber],
                         "failed", "PassportExists")
            ELSE [forms[b] EXCEPT
                    !.pc = "code", !.participantTypeId = participantTypeId,
                    !.organization =
                      submittedOrganization(forms[b].invitationId,
                                            organization),
                    !.closedSession = closedSession,
                    !.passportNumber = passportNumber,
                    !.attempts = 0, !.generatedCode = NoCode,
                    !.rowsAtSubmit = Len(registry),
                    !.approvalsAtSubmit = Len(approvals)]]
  /\ UNCHANGED <<invitation, registry>>
  /\ UNCHANGED workflowVars

(* prisma.participant.findUnique({ where: { registrationCode } })          *)
codeExists(code) ==
  \E i \in DOMAIN registry : registry[i].registrationCode = code

(* A loop that goes on after the fifth collision.                          *)
codeAttemptAgain(f, code) ==
  IF codeExists(code)
  THEN IF f.attempts < MAX_ATTEMPTS
       THEN [f EXCEPT !.generatedCode = NoCode, !.attempts = @ + 1]
       ELSE outcome([f EXCEPT !.attempts = @ + 1], "failed",
                    "CodeGenerationExhausted")
  ELSE [f EXCEPT !.generatedCode = code, !.pc = "create"]

(* One pass of the loop while (!generatedCode && attempts < MAX_ATTEMPTS): *)
(* the record after createRegistrationCode returned code.                  *)
codeAttempt(f, code) ==
  IF codeExists(code)
  THEN IF f.attempts + 1 < MAX_ATTEMPTS
       THEN [f EXCEPT !.generatedCode = NoCode, !.attempts = @ + 1]
       ELSE outcome([f EXCEPT !.attempts = @ + 1], "failed",
                    "CodeGenerationExhausted")
  ELSE [f EXCEPT !.generatedCode = code, !.pc = "create"]

generateCode(b, randomSuffix) ==
  /\ forms[b].pc = "code"
  /\ forms' =
       [forms EXCEPT
          ![b] = codeAttempt(forms[b],
                             createRegistrationCode(forms[b].participantTypeId,
                                                    randomSuffix))]
  /\ UNCHANGED <<invitation, registry>>
  /\ UNCHANGED workflowVars

(* A create that only the email constraint can stop.                       *)
uniqueViolationEmail(f) ==
  f.requestFor = "MYSELF" /\ ownParticipants(f.user) # {}

(* The unique constraints the create branch of the upsert can violate:     *)
(* registrationCode, and (tenantId, eventId, email) for the own email.     *)
uniqueViolation(f) ==
  \/ codeExists(f.generatedCode)
  \/ f.requestFor = "MYSELF" /\ ownParticipants(f.user) # {}

createdParticipant(f, requestReceived) ==
  RegistryRow(f.user, f.participantTypeId, f.organization,
              f.invitationId,
              IF f.requestFor = "MYSELF" THEN f.user ELSE "",
              f.closedSession, f.generatedCode, requestReceived.id,
              f.passportNumber)

createParticipant(b) ==
  /\ forms[b].pc = "create"
  /\ Len(registry) < MaxRegistry
  /\ IF requestReceivedSteps = {}
     THEN /\ forms' = [forms EXCEPT ![b] = outcome(forms[b], "failed", "NotFound")]
          /\ UNCHANGED registry
     ELSE IF uniqueViolation(forms[b])
     THEN /\ forms' = [forms EXCEPT
                         ![b] = outcome(forms[b], "failed", "UniqueConstraint")]
          /\ UNCHANGED registry
     ELSE \E requestReceived \in requestReceivedSteps :
            /\ registry' =
                 Append(registry, createdParticipant(forms[b], requestReceived))
            /\ forms' = [forms EXCEPT ![b].pc = "process",
                                      ![b].row = Len(registry) + 1]
  /\ UNCHANGED invitation
  /\ UNCHANGED workflowVars

(* processParticipant(participant.id, user.id, Action.APPROVE, remarks)    *)
(* for a row of the registry: the approval row and the row after the call. *)
registrySnapshot(row) ==
  [participant |-> NoParticipant, step |-> StepById(row.stepId),
   typeName |-> participantTypeName(row.participantTypeId)]

approved(row, nextStepId) ==
  IF nextStepId = NULL THEN row
  ELSE [row EXCEPT !.stepId = nextStepId, !.status = "INPROGRESS"]

(* The participant id the action of a form holds before the upsert: the    *)
(* id of the draft in the documents route, none in the registration route. *)
formDraftId(f) == IF f.editor = "wizard" THEN FreshDraftId ELSE EmptyId

(* The two calls of the submit action, with the remarks of the route.      *)
processSubmission(b) ==
  /\ forms[b].pc = "process"
  /\ LET id == forms[b].row
         u == forms[b].user
         first == registry[id]
     IN \E firstNext \in determineNextStep(registrySnapshot(first)) :
          LET second == approved(first, firstNext) IN
            \E secondNext \in determineNextStep(registrySnapshot(second)) :
              /\ approvals' =
                   approvals \o
                     << approvalRow(id, registrySnapshot(first), u, "APPROVE",
                                    submissionRemarks(formDraftId(forms[b]),
                                                      FALSE)),
                        approvalRow(id, registrySnapshot(second), u, "APPROVE",
                                    submissionRemarks(formDraftId(forms[b]),
                                                      TRUE)) >>
              /\ registry' = [registry EXCEPT ![id] = approved(second, secondNext)]
  /\ forms' = [forms EXCEPT ![b] = outcome(forms[b], "done", "ok")]
  /\ UNCHANGED invitation
  /\ UNCHANGED <<steps, participants, drafts, nextPid, requests>>

InitAdmission ==
  /\ steps = SparseTable
  /\ participants = [p \in ParticipantIds |-> NoParticipant]
  /\ approvals = <<>>
  /\ drafts = <<>>
  /\ nextPid = 1
  /\ requests = [s \in Slots |-> IdleRequest]
  /\ invitation \in Invitations
  /\ registry = <<>>
  /\ forms = [b \in Browsers |-> IdleForm]

Editors == {"wizard", "registration"}

(* The passport number of an applicant that no registered participant has. *)
ownPassport == Len(registry) + 1

(* One registrant at a time: a form is opened when no other is open.       *)
openForm(b, editor, u, requestFor, invitationId) ==
  /\ \A other \in Browsers : FormClosed(other)
  /\ renderForm(b, editor, u, requestFor, invitationId)

NextAdmission ==
  \/ \E e \in Editors, i \in FormInputs : openForm(1, e, i[1], i[2], i[3])
  \/ \E t \in participantTypes, o \in Organizations, c \in BOOLEAN :
       submitForm(1, t, o, c, ownPassport)
  \/ \E n \in Suffixes : generateCode(1, n)
  \/ createParticipant(1)
  \/ processSubmission(1)

SpecAdmission == InitAdmission /\ [][NextAdmission]_vars

(* Registrations at the same time, by the focal user for others under an   *)
(* invitation with a quota of 1: forms are opened independently.           *)
ConcurrentInvitations ==
  { InvitationRow("ptDelegate", 1, FALSE, <<>>),
    InvitationRow(AllTypeId, NoQuota, TRUE,
                  << ConstraintRow("Delegates", "ptDelegate", 1) >>) }

InitConcurrent ==
  /\ steps = SparseTable
  /\ participants = [p \in ParticipantIds |-> NoParticipant]
  /\ approvals = <<>>
  /\ drafts = <<>>
  /\ nextPid = 1
  /\ requests = [s \in Slots |-> IdleRequest]
  /\ invitation \in ConcurrentInvitations
  /\ registry = <<>>
  /\ forms = [b \in Browsers |-> IdleForm]

NextConcurrent ==
  \/ \E b \in Browsers, e \in Editors :
       renderForm(b, e, "u1", "OTHERS", InvitationId)
  \/ \E b \in Browsers, t \in participantTypes, o \in Organizations,
        c \in BOOLEAN : submitForm(b, t, o, c, ownPassport)
  \/ \E b \in Browsers, n \in Suffixes : generateCode(b, n)
  \/ \E b \in Browsers : createParticipant(b)
  \/ \E b \in Browsers : processSubmission(b)

SpecConcurrent == InitConcurrent /\ [][NextConcurrent]_vars
(* Registrations of two users for themselves, through both editors and at  *)
(* the same time, with passport numbers that can coincide.                 *)
MaxPassports == 2

Passports == 1..MaxPassports

InitPassport ==
  /\ steps = SparseTable
  /\ participants = [p \in ParticipantIds |-> NoParticipant]
  /\ approvals = <<>>
  /\ drafts = <<>>
  /\ nextPid = 1
  /\ requests = [s \in Slots |-> IdleRequest]
  /\ invitation = NoInvitation
  /\ registry = <<>>
  /\ forms = [b \in Browsers |-> IdleForm]

NextPassport ==
  \/ \E e \in Editors : renderForm(1, e, "u1", "MYSELF", NoInvitationId)
  \/ \E e \in Editors : renderForm(2, e, "u2", "MYSELF", NoInvitationId)
  \/ \E b \in Browsers, n \in Passports :
       submitForm(b, "ptDelegate", "", FALSE, n)
  \/ \E b \in Browsers, n \in Suffixes : generateCode(b, n)
  \/ \E b \in Browsers : createParticipant(b)
  \/ \E b \in Browsers : processSubmission(b)

SpecPassport == InitPassport /\ [][NextPassport]_vars


----------------------------------------------------------------------------
(* Requests on drafts that run at the same time: each awaited query on the *)
(* Draft table is a step of the request of a slot.                         *)

SlotFree(s) == requests[s].pc \in {"idle", "done"}

(* The id a generated cuid gets: an id that no draft row has and no        *)
(* running request has read.                                               *)
unusedCuids ==
  Cuids \ ({drafts[i].id : i \in DOMAIN drafts}
             \cup {requests[s].formId : s \in Slots})

cuid == CHOOSE c \in unusedCuids : \A d \in unusedCuids : c >= d

(* new.tsx action, first write: draft.deleteMany({ userId })               *)
newRequestDelete(s, u) ==
  /\ SlotFree(s)
  /\ drafts' = deleteManyDrafts(drafts, u)
  /\ requests' =
       [requests EXCEPT
          ![s] = [IdleRequest EXCEPT !.op = "new", !.pc = "create", !.user = u]]
  /\ UNCHANGED <<steps, participants, approvals, nextPid>>
  /\ UNCHANGED quotaVars

(* $participantId_.edit.tsx loader: the participant is read and checked,   *)
(* then draft.deleteMany({ userId })                                       *)
editRequestDelete(s, u, participantId) ==
  /\ SlotFree(s)
  /\ IF editAllowed(u, participantId)
     THEN /\ drafts' = deleteManyDrafts(drafts, u)
          /\ requests' =
               [requests EXCEPT
                  ![s] = [IdleRequest EXCEPT
                            !.op = "edit", !.pc = "create", !.user = u,
                            !.pid = participantId,
                            !.formType =
                              participants[participantId].participantTypeId]]
     ELSE /\ requests' = [requests EXCEPT ![s] = Rejected("Unauthorized")]
          /\ UNCHANGED drafts
  /\ UNCHANGED <<steps, participants, approvals, nextPid>>
  /\ UNCHANGED quotaVars

(* The second write of both: draft.create, with the participant's id in    *)
(* an edit and a generated id otherwise.                                   *)
draftCreate(s) ==
  /\ requests[s].pc = "create"
  /\ unusedCuids # {}
  /\ LET r == requests[s]
         id == IF r.op = "edit" THEN r.pid ELSE cuid
     IN IF draftConflict(drafts, r.user, id)
        THEN /\ Fail(s, "UniqueConstraint")
             /\ UNCHANGED drafts
        ELSE /\ drafts' = createDraft(drafts, r.user, id, r.formType)
             /\ requests' = [requests EXCEPT ![s].pc = "done", ![s].result = "ok"]
  /\ UNCHANGED <<steps, participants, approvals, nextPid>>
  /\ UNCHANGED quotaVars

(* General step of the wizard: draft.findUnique({ userId }), 404 without   *)
(* a row                                                                   *)
generalStepFind(s, u, participantTypeId) ==
  /\ SlotFree(s)
  /\ requests' =
       [requests EXCEPT
          ![s] = IF ~userDraft(u).present
                 THEN Rejected("NoDraft")
                 ELSE [IdleRequest EXCEPT
                         !.op = "general", !.pc = "update", !.user = u,
                         !.formId = userDraft(u).id,
                         !.formType = participantTypeId]]
  /\ UNCHANGED <<steps, participants, approvals, drafts, nextPid>>
  /\ UNCHANGED quotaVars

(* then draft.update({ where: { id: draft.id } }): throws when the row is  *)
(* gone                                                                    *)
generalStepUpdate(s) ==
  /\ requests[s].pc = "update"
  /\ LET r == requests[s] IN
       IF \E i \in DOMAIN drafts : drafts[i].id = r.formId
       THEN /\ drafts' =
                 [i \in DOMAIN drafts |->
                    IF drafts[i].id = r.formId
                    THEN [drafts[i] EXCEPT !.participantTypeId = r.formType]
                    ELSE drafts[i]]
            /\ requests' = [requests EXCEPT ![s].pc = "done", ![s].result = "ok"]
       ELSE /\ Fail(s, "NotFound")
            /\ UNCHANGED drafts
  /\ UNCHANGED <<steps, participants, approvals, nextPid>>
  /\ UNCHANGED quotaVars

(* Cancel route and events list: draft.deleteMany({ userId })              *)
cancelRequestIn(s, u) ==
  /\ SlotFree(s)
  /\ drafts' = deleteManyDrafts(drafts, u)
  /\ requests' = [requests EXCEPT ![s] = [Finished EXCEPT !.op = "cancel", !.user = u]]
  /\ UNCHANGED <<steps, participants, approvals, nextPid>>
  /\ UNCHANGED quotaVars

(* Documents route: draft.findUnique({ userId }), then the submission      *)
documentsActionIn(s, u) ==
  /\ SlotFree(s)
  /\ RoomForSubmission(userDraft(u).id)
  /\ \A other \in Slots : requests[other].op = "documents" => SlotFree(other)
  /\ requests' = [requests EXCEPT ![s] = documentsRequest(u)]
  /\ UNCHANGED <<steps, participants, approvals, drafts, nextPid>>
  /\ UNCHANGED quotaVars

InitDrafts ==
  /\ steps = FullTable
  /\ participants = [p \in ParticipantIds |-> NoParticipant]
  /\ approvals = <<>>
  /\ drafts = <<>>
  /\ nextPid = 1
  /\ requests = [s \in Slots |-> IdleRequest]
  /\ invitation = NoInvitation
  /\ registry = <<>>
  /\ forms = [b \in Browsers |-> IdleForm]

NextDrafts ==
  \/ \E s \in Slots, u \in Registrants : newRequestDelete(s, u)
  \/ \E s \in Slots, p \in ParticipantIds : editRequestDelete(s, "u1", p)
  \/ \E s \in Slots : draftCreate(s)
  \/ \E s \in Slots, u \in Registrants : generalStepFind(s, u, "ptDelegate")
  \/ \E s \in Slots : generalStepUpdate(s)
  \/ \E s \in Slots, u \in Registrants : cancelRequestIn(s, u)
  \/ \E s \in Slots : documentsActionIn(s, "u1")
  \/ \E s \in Slots : upsertParticipant(s)
  \/ \E s \in Slots : loadParticipant(s)
  \/ \E s \in Slots : logApproval(s)
  \/ \E s \in Slots : dispatch(s)
  \/ \E s \in Slots : secondCall(s)
  \/ \E s \in Slots : deleteDraft(s)
  \/ \E p \in ParticipantIds, u \in Staff :
       processParticipant(p, u, "REJECT", NoRemarks)

SpecDrafts == InitDrafts /\ [][NextDrafts]_vars

----------------------------------------------------------------------------
(* Calls of processParticipant that run at the same time: approvers' calls *)
(* start while another call is between two of its queries.                 *)

MaxRaceCalls == 2

(* The approvers' calls that have not logged their row yet.                *)
CallsStarted ==
  Cardinality({s \in Slots : /\ requests[s].op = "process"
                             /\ requests[s].pc \in {"load", "log"}})

processParticipantIn(s, participantId, userId, action) ==
  /\ SlotFree(s)
  /\ \A o \in Slots : requests[o].op = "registration" => SlotFree(o)
  /\ StaffRows + CallsStarted < MaxRaceCalls
  /\ Len(approvals) + CallsStarted < MaxApprovals
  /\ requests' =
       [requests EXCEPT
          ![s] = callProcessParticipant(
                   [IdleRequest EXCEPT !.op = "process"],
                   participantId, userId, action, NoRemarks, "return")]
  /\ UNCHANGED <<steps, participants, approvals, drafts, nextPid>>
  /\ UNCHANGED quotaVars

InitRace ==
  /\ steps = FullTable
  /\ participants = [p \in ParticipantIds |-> NoParticipant]
  /\ approvals = <<>>
  /\ drafts = <<>>
  /\ nextPid = 1
  /\ requests = [s \in Slots |-> IdleRequest]
  /\ invitation = NoInvitation
  /\ registry = <<>>
  /\ forms = [b \in Browsers |-> IdleForm]

NextRace ==
  \/ \E u \in Registrants, t \in ParticipantTypeIds :
       registrationAction(u, EmptyId, t)
  \/ \E s \in Slots : upsertParticipant(s)
  \/ \E s \in Slots : secondCall(s)
  \/ \E s \in Slots, p \in ParticipantIds, u \in Staff, a \in SupportedActions :
       processParticipantIn(s, p, u, a)
  \/ \E s \in Slots : loadParticipant(s)
  \/ \E s \in Slots : logApproval(s)
  \/ \E s \in Slots : dispatch(s)

SpecRace == InitRace /\ [][NextRace]_vars

----------------------------------------------------------------------------
(* Properties of processParticipant.  A call is observed where it has      *)
(* returned to its caller: the request has ended, or the submission that   *)
(* made the call is about to continue.                                     *)

Loaded(s) == requests[s].snap.participant.present

Returned(s) ==
  /\ Loaded(s)
  /\ requests[s].pc \in {"done", "second", "cleanup"}
  /\ requests[s].result = "ok"

ReturnedWith(s, action) == Returned(s) /\ requests[s].action = action

(* The participant row of the call of request s, and the row the call     *)
(* loaded.                                                                 *)
Current(s) == participants[requests[s].pid]

Before(s) == requests[s].snap.participant

LastApproval == approvals[Len(approvals)]

(* C1: a call of processParticipant with one of the five supported actions *)
(* inserts exactly one Approval row, for the participant of the call,      *)
(* whether or not the participant changed; its result is FAILURE exactly   *)
(* when the action is REJECT.                                              *)
C1_OneApprovalPerCall ==
  \A s \in Slots :
    (Returned(s) /\ requests[s].action
                      \in {"APPROVE", "REJECT", "PRINT", "NOTIFY", "ARCHIVE"})
      => /\ Len(approvals) = requests[s].rowsAtCall + 1
         /\ LastApproval.participantId = requests[s].pid
         /\ LastApproval.result = "FAILURE" <=> requests[s].action = "REJECT"
         /\ LastApproval.result \in {"FAILURE", "SUCCESS"}

(* A REJECT that was a no-op has logged its FAILURE row.                   *)
C1_Witness ==
  \E s \in Slots :
    /\ ReturnedWith(s, "REJECT")
    /\ Current(s) = Before(s)
    /\ Len(approvals) = requests[s].rowsAtCall + 1
    /\ LastApproval.result = "FAILURE"

(* C2: APPROVE on a participant that is not a 'Press / Media' participant  *)
(* at 'Review Request' moves it to the next step of its step with status   *)
(* INPROGRESS, and leaves it as it was when its step has no next step.     *)
C2_ApproveFollowsNextStep ==
  \A s \in Slots :
    (/\ ReturnedWith(s, "APPROVE")
     /\ ~(/\ requests[s].snap.typeName = "Press / Media"
          /\ requests[s].snap.step.name = "Review Request"))
      => IF requests[s].snap.step.nextStepId = NULL
         THEN Current(s) = Before(s)
         ELSE Current(s) =
                [Before(s) EXCEPT !.stepId = requests[s].snap.step.nextStepId,
                                  !.status = "INPROGRESS"]

(* An APPROVE at a terminal step: the participant stays where it was.      *)
C2_Witness ==
  \E s \in Slots :
    /\ ReturnedWith(s, "APPROVE")
    /\ requests[s].op = "process"
    /\ requests[s].snap.step.nextStepId = NULL
    /\ Before(s).status = "INPROGRESS"
    /\ Current(s) = Before(s)

(* C3: APPROVE on a 'Press / Media' participant at 'Review Request' moves  *)
(* it to a step named 'ET Broadcast Approval' with status INPROGRESS,      *)
(* whatever the next step of its step is; without such a step the          *)
(* participant is left as it was.                                          *)
C3_PressBranch ==
  \A s \in Slots :
    (/\ ReturnedWith(s, "APPROVE")
     /\ requests[s].snap.typeName = "Press / Media"
     /\ requests[s].snap.step.name = "Review Request")
      => IF \E st \in steps : st.name = "ET Broadcast Approval"
         THEN /\ \E st \in steps :
                   /\ st.name = "ET Broadcast Approval"
                   /\ Current(s) = [Before(s) EXCEPT !.stepId = st.id,
                                                     !.status = "INPROGRESS"]
         ELSE Current(s) = Before(s)

(* A press participant reviewed in a workflow whose next step is another   *)
(* one is on the 'ET Broadcast Approval' step.                             *)
C3_Witness ==
  \E s \in Slots :
    /\ ReturnedWith(s, "APPROVE")
    /\ requests[s].snap.typeName = "Press / Media"
    /\ requests[s].snap.step.name = "Review Request"
    /\ Current(s).stepId # requests[s].snap.step.nextStepId
    /\ StepById(Current(s).stepId).name = "ET Broadcast Approval"
    /\ StepById(Current(s).stepId).workflowId # requests[s].snap.step.workflowId

(* C4: REJECT puts the participant, with status REJECTED, on a step named  *)
(* 'MOFA Approval' with action APPROVE of the workflow of its current      *)
(* step when there is one; when there is none the participant is left as   *)
(* it was and only the Approval row is added.                              *)
C4_RejectRoutesToMofa ==
  \A s \in Slots :
    ReturnedWith(s, "REJECT")
      => LET targets ==
               {st \in steps :
                  /\ st.workflowId = requests[s].snap.step.workflowId
                  /\ st.name = "MOFA Approval"
                  /\ st.action = "APPROVE"}
         IN IF targets # {}
            THEN \E st \in targets :
                   Current(s) = [Before(s) EXCEPT !.stepId = st.id,
                                                  !.status = "REJECTED"]
            ELSE /\ Current(s) = Before(s)
                 /\ Len(approvals) = requests[s].rowsAtCall + 1

(* A REJECT that moved the participant to another step.                    *)
C4_Witness ==
  \E s \in Slots :
    /\ ReturnedWith(s, "REJECT")
    /\ Current(s).status = "REJECTED"
    /\ Current(s).stepId # Before(s).stepId
    /\ StepById(Current(s).stepId).name = "MOFA Approval"

(* C5: PRINT and NOTIFY leave the participant as it was when its step has  *)
(* no next step; otherwise they move it to the next step with status       *)
(* PRINTED and NOTIFIED.                                                   *)
C5_PrintNotify ==
  \A s \in Slots :
    (Returned(s) /\ requests[s].action \in {"PRINT", "NOTIFY"})
      => IF requests[s].snap.step.nextStepId = NULL
         THEN Current(s) = Before(s)
         ELSE Current(s) =
                [Before(s) EXCEPT
                   !.stepId = requests[s].snap.step.nextStepId,
                   !.status = IF requests[s].action = "PRINT"
                              THEN "PRINTED" ELSE "NOTIFIED"]

(* A NOTIFY that advanced the participant.                                 *)
C5_Witness ==
  \E s \in Slots :
    /\ ReturnedWith(s, "NOTIFY")
    /\ requests[s].snap.step.nextStepId # NULL
    /\ Current(s).status = "NOTIFIED"
    /\ Current(s).stepId = requests[s].snap.step.nextStepId

(* C6: ARCHIVE sets the status to ARCHIVED from every step and status and  *)
(* leaves the step as it was.                                              *)
C6_Archive ==
  \A s \in Slots :
    ReturnedWith(s, "ARCHIVE")
      => Current(s) = [Before(s) EXCEPT !.status = "ARCHIVED"]

(* An ARCHIVE at a step that has a next step.                              *)
C6_Witness ==
  \E s \in Slots :
    /\ ReturnedWith(s, "ARCHIVE")
    /\ requests[s].snap.step.nextStepId # NULL
    /\ Current(s).status = "ARCHIVED"
    /\ Current(s).stepId = Before(s).stepId

(* C7: a call with CANCEL or BYPASS ends with the unsupported-action error *)
(* at its caller, and the participant is as it was.                        *)
C7_UnsupportedAction ==
  \A s \in Slots :
    (/\ Loaded(s)
     /\ requests[s].action \in {"CANCEL", "BYPASS"}
     /\ requests[s].pc \notin {"log", "handle"})
      => /\ requests[s].pc = "done"
         /\ requests[s].result = "UnsupportedAction"
         /\ Current(s) = Before(s)

(* A BYPASS call that has failed.                                          *)
C7_Witness ==
  \E s \in Slots :
    /\ Loaded(s)
    /\ requests[s].action = "BYPASS"
    /\ requests[s].pc = "done"
    /\ requests[s].result = "UnsupportedAction"

(* C8: in every call the Approval row is inserted before the participant   *)
(* is written: when the handler is about to run the row is there and the   *)
(* participant is as it was loaded; the row is still there when the call   *)
(* has ended, with a transition, without one, or with the error of its     *)
(* handler (unsupported action, next step row missing).                    *)
C8_AuditFirst ==
  \A s \in Slots :
    Loaded(s) =>
      /\ requests[s].pc = "handle"
           => /\ Len(approvals) = requests[s].rowsAtCall + 1
              /\ LastApproval.participantId = requests[s].pid
              /\ LastApproval.stepId = requests[s].snap.step.id
              /\ Current(s) = Before(s)
      /\ (/\ requests[s].pc \in {"done", "second", "cleanup"}
          /\ requests[s].result
               \in {"ok", "UnsupportedAction", "NotFound", "ForeignKey"})
           => /\ Len(approvals) = requests[s].rowsAtCall + 1
              /\ LastApproval.participantId = requests[s].pid
              /\ LastApproval.stepId = requests[s].snap.step.id
              /\ LastApproval.userId = requests[s].user
      /\ (/\ requests[s].pc = "done"
          /\ requests[s].result
               \in {"UnsupportedAction", "NotFound", "ForeignKey"})
           => Current(s) = Before(s)

(* A PRINT call has failed because the next step of the participant's step *)
(* is not in the table; its row is the last of the table and the           *)
(* participant is as it was.                                               *)
C8_Witness ==
  \E s \in Slots :
    /\ Loaded(s)
    /\ requests[s].action = "PRINT"
    /\ requests[s].pc = "done"
    /\ requests[s].result = "NotFound"
    /\ requests[s].snap.step.nextStepId # NULL
    /\ Len(approvals) = requests[s].rowsAtCall + 1
    /\ LastApproval.participantId = requests[s].pid
    /\ LastApproval.result = "SUCCESS"
    /\ Current(s) = Before(s)

(* C9: the Approval table is append-only: every step keeps the rows there  *)
(* are, unchanged and in place.                                            *)
C9_AppendOnly ==
  [][/\ Len(approvals') >= Len(approvals)
     /\ SubSeq(approvals', 1, Len(approvals)) = approvals]_vars

(* A step changes the step or the status of a participant that exists      *)
(* before and after it.                                                    *)
Rewritten(p) ==
  /\ participants[p].present
  /\ participants'[p].present
  /\ \/ participants'[p].stepId # participants[p].stepId
     \/ participants'[p].status # participants[p].status

(* The step is the handler of a call of processParticipant for p.          *)
ByHandler(p) ==
  \E s \in Slots : requests[s].pc = "handle" /\ requests[s].pid = p

(* The step is the upsert of a submission for p.                           *)
ByUpsert(p) ==
  \E s \in Slots : requests[s].pc = "upsert" /\ requests[s].formId = p

(* C10 as stated: the step and the status of an existing participant are   *)
(* changed by the handlers of processParticipant only.                     *)
C10_OnlyHandlersWrite ==
  [][\A p \in ParticipantIds : Rewritten(p) => ByHandler(p)]_vars

(* C10: the step and the status of an existing participant are changed by  *)
(* the handlers of processParticipant and by the upsert of a submission,   *)
(* which puts the participant on a 'Request Received' step and keeps its   *)
(* status; no other operation changes them.                                *)
C10_HandlersAndUpsertWrite ==
  [][\A p \in ParticipantIds :
       Rewritten(p) =>
         \/ ByHandler(p)
         \/ /\ ByUpsert(p)
            /\ participants'[p].status = participants[p].status
            /\ \E st \in steps : /\ st.id = participants'[p].stepId
                                 /\ st.name = "Request Received"]_vars

(* The documents submission of a rejected participant has upserted: the    *)
(* participant is REJECTED on a 'Request Received' step.                   *)
C10_Witness ==
  \E s \in Slots :
    /\ requests[s].op = "documents"
    /\ requests[s].existing
    /\ requests[s].pc = "load"
    /\ requests[s].ret = "second"
    /\ Exists(requests[s].pid)
    /\ participants[requests[s].pid].status = "REJECTED"
    /\ StepById(participants[requests[s].pid].stepId).name = "Request Received"

(* C11: ARCHIVED is terminal: a handler of processParticipant that runs    *)
(* for a participant whose status is ARCHIVED leaves its status and step   *)
(* as they are.                                                            *)
C11_ArchivedTerminal ==
  [][\A p \in ParticipantIds :
       (/\ participants[p].present
        /\ participants[p].status = "ARCHIVED"
        /\ participants'[p].present
        /\ ByHandler(p))
         => /\ participants'[p].status = participants[p].status
            /\ participants'[p].stepId = participants[p].stepId]_vars

(* The call of request s is made by a user who holds the role of the       *)
(* participant's step, with the action of that step.                       *)
Gated(s) ==
  /\ stepRole(requests[s].snap.step) \in UserRoles[requests[s].user]
  /\ requests[s].action = requests[s].snap.step.action

(* C12: a handler of processParticipant changes the step or the status of  *)
(* a participant only when the acting user holds the role of the           *)
(* participant's current step and the action is the action of that step.   *)
C12_RoleGated ==
  [][\A p \in ParticipantIds :
       \A s \in Slots :
         (/\ Rewritten(p)
          /\ requests[s].pc = "handle"
          /\ requests[s].pid = p)
           => Gated(s)]_vars

----------------------------------------------------------------------------
(* Claims about the quota evaluation and the admission of participants.    *)

(* The form of browser b is on screen and shows the registry as it is.     *)
Fresh(b) == forms[b].pc = "form" /\ forms[b].asOf = Len(registry)

(* The participants of the constraint's type whose organization is the     *)
(* invitation's.                                                           *)
matching(inv, c) ==
  Cardinality({i \in DOMAIN registry :
                 /\ registry[i].participantTypeId = c.participantTypeId
                 /\ registry[i].organization = inv.organization})

(* The participants of the invitation who wish to attend the closed        *)
(* session.                                                                *)
wishing(inv) ==
  Cardinality({i \in DOMAIN registry :
                 /\ registry[i].invitationId = inv.id
                 /\ registry[i].closedSession})

(* The participants registered under the invitation for its organization.  *)
admitted(inv) ==
  Cardinality({i \in DOMAIN registry :
                 /\ registry[i].invitationId = inv.id
                 /\ registry[i].organization = inv.organization})

(* C13 as stated: every available slot count on screen, in the labels of   *)
(* the wizard's type select and in the quota panel, is the constraint's    *)
(* quota minus the number of participants of the constraint's type whose   *)
(* organization is the invitation's.                                       *)
C13_AvailableSlots ==
  \A b \in Browsers :
    Fresh(b) =>
      /\ \A l \in forms[b].labels :
           \A k \in DOMAIN invitation.constraints :
             invitation.constraints[k].participantTypeId = l.participantTypeId
               => l.available = invitation.constraints[k].quota
                                  - matching(invitation, invitation.constraints[k])
      /\ \A l \in forms[b].panel :
           l.available = invitation.constraints[l.constraint].quota
                           - matching(invitation,
                                      invitation.constraints[l.constraint])

(* C13: every available slot count on screen is the constraint's quota     *)
(* minus the number of participants of the constraint's type whose         *)
(* organization is the invitation's, except that the quota panel, for a    *)
(* constraint named 'Closed Session', subtracts the number of the          *)
(* invitation's participants who wish to attend the closed session; the    *)
(* count may be zero or negative.                                          *)
C13_AvailableSlotsByName ==
  \A b \in Browsers :
    Fresh(b) =>
      /\ \A l \in forms[b].labels :
           \A k \in DOMAIN invitation.constraints :
             invitation.constraints[k].participantTypeId = l.participantTypeId
               => l.available = invitation.constraints[k].quota
                                  - matching(invitation, invitation.constraints[k])
      /\ \A l \in forms[b].panel :
           LET c == invitation.constraints[l.constraint] IN
             l.available =
               c.quota - (IF c.name = "Closed Session" THEN wishing(invitation)
                          ELSE matching(invitation, c))

(* The quota panel on screen shows a negative count: two participants of   *)
(* the constraint's type and the invitation's organization against a quota *)
(* of one.                                                                 *)
C13_Witness ==
  \E b \in Browsers :
    /\ Fresh(b)
    /\ \E l \in forms[b].panel :
         /\ l.available < 0
         /\ matching(invitation, invitation.constraints[l.constraint]) = 2

(* The form on screen is the focal user's, for others, under the           *)
(* invitation.                                                             *)
Invited(b) ==
  /\ Fresh(b)
  /\ forms[b].user = "u1"
  /\ forms[b].requestFor = "OTHERS"
  /\ forms[b].invitationId = invitation.id
  /\ invitation.id # NoInvitationId

(* The invitation is for type pt, or for 'All'.                            *)
allows(inv, pt) ==
  \/ participantTypeName(inv.participantTypeId) = "All"
  \/ inv.participantTypeId = pt

(* The participants of type pt whose organization is the invitation's.     *)
registered(inv, pt) ==
  Cardinality({i \in DOMAIN registry :
                 /\ registry[i].participantTypeId = pt
                 /\ registry[i].organization = inv.organization})

(* C14: a missing constraint means unlimited: in the wizard's general-info *)
(* editor, a type the invitation allows, and for which the invitation's    *)
(* restriction has no constraint, is selectable however many participants  *)
(* of that type exist, as long as the invitation's maximum is not reached. *)
C14_MissingConstraintUnlimited ==
  \A b \in Browsers :
    (Invited(b) /\ forms[b].editor = "wizard") =>
      \A pt \in participantTypes :
        (/\ participantTypeName(pt) # "All"
         /\ allows(invitation, pt)
         /\ invitation.restricted
         /\ \A k \in DOMAIN invitation.constraints :
              invitation.constraints[k].participantTypeId # pt
         /\ \/ invitation.maximumQuota \in {NoQuota, 0}
            \/ admitted(invitation) < invitation.maximumQuota)
          => pt \in forms[b].selectable

(* The wizard offers a type without a constraint while two participants of *)
(* that type and the invitation's organization exist.                      *)
C14_Witness ==
  \E b \in Browsers :
    /\ Invited(b)
    /\ forms[b].editor = "wizard"
    /\ invitation.restricted
    /\ \E pt \in forms[b].selectable :
         /\ \A k \in DOMAIN invitation.constraints :
              invitation.constraints[k].participantTypeId # pt
         /\ registered(invitation, pt) = 2

(* C15: per-type quota gating: in the form of either editor, a type for    *)
(* which the selected invitation's restriction has a constraint is         *)
(* selectable only while the participants of that type and the             *)
(* invitation's organization number fewer than the constraint's quota.     *)
C15_PerTypeGating ==
  \A b \in Browsers :
    Invited(b) =>
      \A pt \in forms[b].selectable :
        \A k \in DOMAIN invitation.constraints :
          invitation.constraints[k].participantTypeId = pt
            => registered(invitation, pt) < invitation.constraints[k].quota

(* C16: the invitation's maximum is checked first: in the form of either   *)
(* editor, when the invitation has a maximumQuota and the participants     *)
(* registered under it for its organization number at least that many, no  *)
(* type is selectable.                                                     *)
C16_MaximumQuotaFirst ==
  \A b \in Browsers :
    (/\ Invited(b)
     /\ invitation.maximumQuota # NoQuota
     /\ admitted(invitation) >= invitation.maximumQuota)
      => forms[b].selectable = {}

(* C17: the quota caps admission after any sequence of submissions made    *)
(* one at a time: the participants registered under the invitation for    *)
(* its organization never exceed its maximumQuota, and the participants   *)
(* of a constraint's type and the invitation's organization never exceed  *)
(* the constraint's quota.                                                 *)
C17_QuotaCapsAdmission ==
  /\ invitation.maximumQuota # NoQuota
       => admitted(invitation) <= invitation.maximumQuota
  /\ \A k \in DOMAIN invitation.constraints :
       matching(invitation, invitation.constraints[k])
         <= invitation.constraints[k].quota

(* C18: of two registrations started against a quota of 1 with no          *)
(* participant registered, at most one succeeds.                           *)
C18_OneAdmitted ==
  ~ \E b1, b2 \in Browsers :
      /\ b1 # b2
      /\ forms[b1].pc = "done" /\ forms[b1].asOf = 0
      /\ forms[b2].pc = "done" /\ forms[b2].asOf = 0

C20_UniqueCodes ==
  \A i, j \in DOMAIN registry :
    i # j => registry[i].registrationCode # registry[j].registrationCode

(* Two registrations that ran at the same time have both succeeded, one of *)
(* them after a collision, and the two participants are of the same type.  *)
C20_Witness ==
  /\ Len(registry) = 2
  /\ registry[1].participantTypeId = registry[2].participantTypeId
  /\ \A b \in Browsers : forms[b].pc = "done" /\ forms[b].rowsAtSubmit = 0
  /\ \E b \in Browsers : forms[b].attempts >= 1

----------------------------------------------------------------------------
(* Claims about the direction of transitions, the drafts, and the calls    *)
(* and submissions that touch a participant.                               *)

(* C21: REJECT routes back, never forward: when a REJECT has changed the   *)
(* participant's step, the step it is on comes before the step it was on   *)
(* in the order of the workflow.                                           *)
C21_RejectRoutesBack ==
  \A s \in Slots :
    (/\ ReturnedWith(s, "REJECT")
     /\ Exists(requests[s].pid)
     /\ Current(s).stepId # Before(s).stepId)
      => /\ StepById(Current(s).stepId).workflowId
              = requests[s].snap.step.workflowId
         /\ StepById(Current(s).stepId).order < requests[s].snap.step.order

(* The invitation's constraints named 'Closed Session'.                    *)
closedSessionRows ==
  {k \in DOMAIN invitation.constraints :
     invitation.constraints[k].name = "Closed Session"}

(* C22: Closed Session availability: on every screen of the invited user   *)
(* that shows it (the wizard with its quota panel and wishlist step, the   *)
(* single-page registration form), when the invitation has a constraint    *)
(* named 'Closed Session' the availability is that constraint's quota      *)
(* minus the number of the invitation's participants who wish to attend    *)
(* the closed session, and the Closed Session meeting is offered exactly   *)
(* when the availability is greater than 0.                                *)
C22_ClosedSessionAvailability ==
  \A b \in Browsers :
    (Fresh(b) /\ forms[b].user = "u1") =>
      \A k \in closedSessionRows :
        LET available == invitation.constraints[k].quota - wishing(invitation)
        IN /\ forms[b].availableClosedSessionQuota = available
           /\ forms[b].closedSessionOffered <=> (available > 0)
           /\ \A l \in forms[b].panel :
                l.constraint = k => l.available = available

(* C23: in every interleaving of new, edit, wizard step, cancel, events    *)
(* list and documents requests each user has at most one Draft row; the    *)
(* draft.create of a new or edit request that succeeds leaves the created  *)
(* row as the user's only draft; and the deleteMany of a cancel, an events *)
(* list visit or a documents submission leaves the user without a draft.   *)
createdDraft(s) ==
  DraftRow(requests[s].user,
           IF requests[s].op = "edit" THEN requests[s].pid ELSE cuid,
           requests[s].formType)

C23_DraftSingleton ==
  /\ [](\A u \in Registrants : Len(draftsOf(drafts, u)) <= 1)
  /\ [][\A s \in Slots :
          /\ (/\ requests[s].pc = "create"
              /\ requests'[s].pc = "done"
              /\ requests'[s].result = "ok")
               => draftsOf(drafts', requests[s].user) = <<createdDraft(s)>>
          /\ (/\ requests[s].pc = "cleanup"
              /\ requests'[s].pc = "done")
               => draftsOf(drafts', requests[s].user) = <<>>
          /\ (/\ requests'[s] # requests[s]
              /\ requests'[s].op = "cancel")
               => draftsOf(drafts', requests'[s].user) = <<>>]_vars

(* Two new requests of one user ran together: the second create was        *)
(* refused and the user holds the draft of the first.                      *)
C23_Witness ==
  \E s, o \in Slots :
    /\ s # o
    /\ requests[s].op = "new" /\ requests[s].result = "UniqueConstraint"
    /\ requests[o].op = "new" /\ requests[o].result = "ok"
    /\ requests[o].user = requests[s].user
    /\ Len(draftsOf(drafts, requests[s].user)) = 1

(* C24: two processParticipant calls on one participant that both return   *)
(* leave the participant, and the steps of their two Approval rows, as     *)
(* one of the two serial orders of the calls does.                         *)
snapshotOf(row) ==
  [participant |-> row,
   step |-> StepById(row.stepId),
   typeName |-> ParticipantTypeName[row.participantTypeId]]

(* The rows a call that runs alone can leave of a participant row.         *)
alone(row, action) ==
  LET snap == snapshotOf(row)
      moved(stepId, status) ==
        IF stepId = NULL \/ StepsWithId(stepId) = {} THEN row
        ELSE [row EXCEPT !.stepId = stepId, !.status = status]
  IN CASE action = "REJECT" ->
            IF mofaApprovalSteps(snap) = {} THEN {row}
            ELSE {moved(st.id, "REJECTED") : st \in mofaApprovalSteps(snap)}
       [] action = "APPROVE" ->
            {moved(n, "INPROGRESS") : n \in determineNextStep(snap)}
       [] action = "PRINT" -> {moved(snap.step.nextStepId, "PRINTED")}
       [] action = "NOTIFY" -> {moved(snap.step.nextStepId, "NOTIFIED")}
       [] OTHER -> {[row EXCEPT !.status = "ARCHIVED"]}

lastTwoSteps ==
  <<approvals[Len(approvals) - 1].stepId, approvals[Len(approvals)].stepId>>

C24_Serializable ==
  \A s, o \in Slots :
    (/\ s # o
     /\ requests[s].op = "process" /\ requests[s].pc = "done"
     /\ requests[o].op = "process" /\ requests[o].pc = "done"
     /\ requests[s].result = "ok" /\ requests[o].result = "ok"
     /\ requests[s].pid = requests[o].pid)
      => \E first, second \in {s, o} :
           /\ first # second
           /\ \E r1 \in alone(requests[first].snap.participant,
                              requests[first].action) :
                /\ participants[requests[s].pid]
                     \in alone(r1, requests[second].action)
                /\ lastTwoSteps
                     = <<requests[first].snap.participant.stepId, r1.stepId>>

(* C25: the upsert of a registration or documents submission changes an    *)
(* existing participant only when the participant belongs to the           *)
(* submitting user and its status is REJECTED at that time.                *)
C25_OnlyOwnRejectedModified ==
  [][\A s \in Slots :
       (/\ requests[s].pc = "upsert"
        /\ Exists(requests[s].formId)
        /\ participants'[requests[s].formId] # participants[requests[s].formId])
         => /\ participants[requests[s].formId].userId = requests[s].user
            /\ participants[requests[s].formId].status = "REJECTED"]_vars

(* C26: a delete request removes a participant only when the requesting    *)
(* user owns it.                                                           *)
C26_DeleteOnlyByOwner ==
  [][\A p \in ParticipantIds :
       (/\ Exists(p)
        /\ ~participants'[p].present
        /\ requests'[1].op = "delete")
         => participants[p].userId = requests'[1].user]_vars

(* C27: the step a participant stands on, after its registration and after *)
(* every transition, belongs to a workflow of the participant's own        *)
(* participant type.                                                       *)
C27_OwnWorkflow ==
  \A p \in ParticipantIds :
    Exists(p) =>
      WorkflowParticipantType[StepById(participants[p].stepId).workflowId]
        = participants[p].participantTypeId

(* C29: a submission that created a participant and has returned, with a   *)
(* 'Request Received' step and a successor that each have a next step, has *)
(* recorded exactly two Approval rows by the submitting user, both         *)
(* SUCCESS, at 'Request Received' and at its successor, and the            *)
(* participant is INPROGRESS two steps after 'Request Received'.           *)
Submitted(s) ==
  /\ requests[s].op \in {"registration", "documents"}
  /\ ~requests[s].existing
  /\ requests[s].pc \in {"done", "cleanup"}
  /\ requests[s].ret # "second"
  /\ Returned(s)

rowsOf(pid) == SelectSeq(approvals, LAMBDA a : a.participantId = pid)

receivedStep(s) == StepById(rowsOf(requests[s].pid)[1].stepId)

HasTwoSuccessors(st) ==
  /\ StepsWithId(st.nextStepId) # {}
  /\ StepsWithId(StepById(st.nextStepId).nextStepId) # {}

TwoApprovals(s) ==
  LET rows == rowsOf(requests[s].pid) IN
    /\ Len(rows) = 2
    /\ \A i \in 1..2 : rows[i].userId = requests[s].user
                       /\ rows[i].result = "SUCCESS"
    /\ receivedStep(s).name = "Request Received"
    /\ rows[2].stepId = receivedStep(s).nextStepId
    /\ Current(s).status = "INPROGRESS"

C29_TwoStepsAfter ==
  \A s \in Slots :
    (Submitted(s) /\ HasTwoSuccessors(receivedStep(s)))
      => /\ TwoApprovals(s)
         /\ Current(s).stepId
              = StepById(receivedStep(s).nextStepId).nextStepId

(* Amended: a Press / Media participant whose second step is named         *)
(* 'Review Request' is left on a step named 'ET Broadcast Approval' when   *)
(* there is one, and on the second step otherwise; every other participant *)
(* is left two steps after 'Request Received'.                             *)
C29_TwoStepsAfterOrBroadcast ==
  \A s \in Slots :
    (Submitted(s) /\ HasTwoSuccessors(receivedStep(s)))
      => LET second == StepById(receivedStep(s).nextStepId)
             press == /\ ParticipantTypeName[Current(s).participantTypeId]
                           = "Press / Media"
                      /\ second.name = "Review Request"
         IN /\ TwoApprovals(s)
            /\ ~press => Current(s).stepId = second.nextStepId
            /\ (press /\ etBroadcastSteps = {}) => Current(s).stepId = second.id
            /\ (press /\ etBroadcastSteps # {})
                 => StepById(Current(s).stepId).name = "ET Broadcast Approval"

(* A Press / Media registration has returned and the participant stands on *)
(* the 'ET Broadcast Approval' step, which is not two steps after the      *)
(* 'Request Received' step it started from.                                *)
C29_Witness ==
  \E s \in Slots :
    /\ Submitted(s)
    /\ HasTwoSuccessors(receivedStep(s))
    /\ Current(s).participantTypeId = "ptPress"
    /\ StepById(Current(s).stepId).name = "ET Broadcast Approval"
    /\ Current(s).stepId # StepById(receivedStep(s).nextStepId).nextStepId

(* C30: the two Approval rows of a submission that has returned carry the  *)
(* remarks 'Initial Request Received' and 'Initial Request Reviewed' when  *)
(* the submission created the participant, and the 'Updated' remarks only  *)
(* when it updated an existing one.                                        *)
C30_RemarksTellFirstSubmission ==
  \A s \in Slots :
    (/\ requests[s].op \in {"registration", "documents"}
     /\ requests[s].pc \in {"done", "cleanup"}
     /\ requests[s].ret # "second"
     /\ Returned(s))
      => LET n == Len(approvals)
             remarks == <<approvals[n - 1].remarks, approvals[n].remarks>>
         IN IF requests[s].existing
            THEN remarks = <<"Updated Request Received",
                             "Updated Request Reviewed">>
            ELSE remarks = <<"Initial Request Received",
                             "Initial Request Reviewed">>

(* C28: no two participants have the same passport number (the model has   *)
(* one tenant and one event).                                              *)
C28_UniquePassports ==
  \A i, j \in DOMAIN registry :
    registry[i].passportNumber = registry[j].passportNumber => i = j

====
